---- MODULE Spec2Model ----
(***************************************************************************)
(* Model of pcap_reader_t (src/lib/pcap_reader.cpp): the capture session   *)
(* (d_pcap and the libpcap handles behind it), the scoped close guard of   *)
(* read_file, the two optional reassemblers, and the per-frame callback    *)
(* handle_packet with the packet pool it claims from.                      *)
(*                                                                         *)
(* The engine is single threaded.  A read (read_file or read_packets) is   *)
(* in progress while pcap_dispatch is on the stack: pc = "reading".  The   *)
(* callbacks it makes run consumer code, which may call back into the      *)
(* engine: a re-entrant call is a step taken while pc = "reading", after   *)
(* the handle_packet step whose callback makes it.                         *)
(***************************************************************************)
EXTENDS Integers, Sequences, FiniteSets, TLC

\* ---------------------------------------------------------------- bounds
MaxHandles == 2      \* capture handles libpcap can have open at once
MaxFrames  == 2      \* frames one pcap_dispatch call delivers
MaxPackets == 2      \* packet_t objects the pool constructs
MaxLayers  == 2      \* layers of a parsed frame
MaxListeners == 2    \* distinct packet_listener_t objects

NULL == 0

Handles    == 1..MaxHandles
Packets    == 1..MaxPackets
Listeners  == 1..MaxListeners
LinkTypes  == {1, 2}
LayerTypes == {"layer_tcp", "layer_udp", "layer_data", "layer_other"}
Timestamps == {1, 2}

\* the filter expressions a caller can pass: none, a good one, one that
\* pcap_compile rejects, one that pcap_setfilter rejects
Filters == {"empty", "good", "bad_compile", "bad_setfilter"}

\* how a call into the consumer or a reassembler ends
Outcomes == {"ok", "exception", "unknown_layer"}

VARIABLES
    d_pcap,                 \* pcap_t *d_pcap: NULL or a handle
    d_linktype,             \* int d_linktype
    d_listener,             \* packet_listener_t *d_listener
    d_tcp_reassembler,      \* TRUE iff the pointer is not NULL
    d_udp_reassembler,
    tcp_listener,           \* the listener the tcp reassembler is bound to
    udp_listener,
    unknown_layer_as_error, \* built with UNKNOWN_LAYER_AS_ERROR
    openHandles,            \* handles libpcap has open (opened, not closed)
    pc,                     \* "idle" or "reading" (inside pcap_dispatch)
    guard,                  \* read_file's pcap_close_guard_t is on the stack
    readHandle,             \* the handle pcap_dispatch was called with
    framesLeft,             \* frames the running pcap_dispatch still has
    called,                 \* the running read has called handle_packet
    holders,                \* per packet: who has been given it
    data,                   \* per packet: "borrowed" or "owned" bytes
    poolCap,                \* how many objects the pool may construct
    lastOp,                 \* the operation the last step ran
    result,                 \* how it ended for its caller
    returned,               \* the read call that returned in the last step
    ev,                     \* the calls the last step made, in order
    frame,                  \* the frame the last handle_packet was given
    halted                  \* the process has terminated

vars == << d_pcap, d_linktype, d_listener, d_tcp_reassembler,
           d_udp_reassembler, tcp_listener, udp_listener,
           unknown_layer_as_error, openHandles, pc,
           guard, readHandle, framesLeft, called, holders, data, poolCap,
           lastOp, result, returned, ev, frame, halted >>

sessionVars == << d_pcap, d_linktype, openHandles >>
readVars    == << pc, guard, readHandle, framesLeft, called >>
reassVars   == << d_tcp_reassembler, d_udp_reassembler, tcp_listener,
                  udp_listener >>
poolVars    == << holders, data, poolCap >>

\* one call made by a step: the callee, its argument (a handle, a packet, a
\* timestamp or a link type) and the listener it was made on (NULL if none)
Call(c, a, l) == [call |-> c, arg |-> a, to |-> l]

NoFrame == [parse |-> "none", layers |-> << >>, resolved |-> FALSE, ts |-> 0]

\* layer stacks of at most MaxLayers layers, outermost first
LayerStacks == UNION { [1..n -> LayerTypes] : n \in 0..MaxLayers }

\* a raw frame, by what packet_t::init makes of it: it parses ("ok"), throws
\* unknown_layer_t or throws another std::exception; `resolved` is whether
\* init cleared *must_copy (it took its own copy of the bytes)
Frames ==
    { [parse |-> "ok", layers |-> s, resolved |-> r, ts |-> t] :
        s \in LayerStacks, r \in BOOLEAN, t \in Timestamps }
    \cup
    { [parse |-> p, layers |-> << >>, resolved |-> r, ts |-> t] :
        p \in {"unknown_layer", "error"}, r \in BOOLEAN, t \in Timestamps }


\* ------------------------------------------------------------------ Init
\* the state the constructor leaves: no handle, both reassemblers enabled
\* and bound to the constructor's listener; d_linktype is not initialised
Init ==
    /\ d_pcap = NULL
    /\ d_linktype \in LinkTypes
    /\ d_listener = 1
    /\ d_tcp_reassembler = TRUE
    /\ d_udp_reassembler = TRUE
    /\ tcp_listener = d_listener
    /\ udp_listener = d_listener
    /\ unknown_layer_as_error \in BOOLEAN
    /\ openHandles = {}
    /\ pc = "idle"
    /\ guard = FALSE
    /\ readHandle = NULL
    /\ framesLeft = 0
    /\ called = FALSE
    /\ holders = [p \in Packets |-> {}]
    /\ data = [p \in Packets |-> "none"]
    /\ poolCap \in 1..MaxPackets
    /\ lastOp = "constructor"
    /\ result = "ok"
    /\ returned = "none"
    /\ ev = << >>
    /\ frame = NoFrame
    /\ halted = FALSE

\* what a step records about itself
Done(op, res, calls) ==
    /\ lastOp' = op
    /\ result' = res
    /\ ev' = calls
    /\ frame' = NoFrame
    /\ returned' = "none"

\* a call can be made between reads, or from a callback of a running read
Callable == ~halted /\ (pc = "idle" \/ called)

\* ------------------------------------------------------- capture session
\* set_bpf on handle h: the calls it makes and whether it throws
set_bpf(h, bpf) ==
    CASE bpf = "empty" ->
           [result |-> "ok", ev |-> << >>]
      [] bpf = "bad_compile" ->
           [result |-> "FilterError", ev |-> << Call("pcap_compile", h, NULL) >>]
      [] bpf = "bad_setfilter" ->
           [result |-> "FilterError",
            ev |-> << Call("pcap_compile", h, NULL),
                      Call("pcap_setfilter", h, NULL) >>]
      [] OTHER ->
           [result |-> "ok",
            ev |-> << Call("pcap_compile", h, NULL),
                      Call("pcap_setfilter", h, NULL) >>]

\* the handle the next successful libpcap open returns: one not open now
NewHandle == CHOOSE h \in Handles \ openHandles :
                \A g \in Handles \ openHandles : h <= g

\* the part open_file and open_live_capture share, from the libpcap open
\* call on: d_pcap is assigned the call's result (NULL on failure), then
\* the filter, the link type and begin_capture.  Nothing here closes the
\* handle when a later step throws.
OpenWith(libcall, openOk, bpf, lt, bc) ==
    LET h  == NewHandle
        o  == << Call(libcall, IF openOk THEN h ELSE NULL, NULL) >>
        f  == set_bpf(h, bpf)
    IN  IF ~openOk
        THEN [d_pcap |-> NULL, d_linktype |-> d_linktype,
              openHandles |-> openHandles,
              result |-> "OpenError", ev |-> o]
        ELSE IF f.result # "ok"
        THEN [d_pcap |-> h, d_linktype |-> d_linktype,
              openHandles |-> openHandles \cup {h},
              result |-> f.result, ev |-> o \o f.ev]
        ELSE [d_pcap |-> h, d_linktype |-> lt,
              openHandles |-> openHandles \cup {h},
              result |-> IF bc = "ok" THEN "ok" ELSE "ListenerError",
              ev |-> o \o f.ev \o << Call("pcap_datalink", h, NULL),
                                     Call("begin_capture", lt, d_listener) >>]

\* pcap_close(h) on an open handle
Closed(oh, h) == oh \ {h}

\* open_file without its busy check
OpenFileUnchecked(openOk, bpf, lt, bc) ==
    OpenWith("pcap_open_offline", openOk, bpf, lt, bc)

\* open_file's body: the busy check, then OpenWith
OpenFileResult(openOk, bpf, lt, bc) ==
    IF d_pcap # NULL
    THEN [d_pcap |-> d_pcap, d_linktype |-> d_linktype,
          openHandles |-> openHandles,
          result |-> "AlreadyOpen", ev |-> << >>]
    ELSE OpenWith("pcap_open_offline", openOk, bpf, lt, bc)

open_file(openOk, bpf, lt, bc) ==
    /\ Callable
    /\ openOk => openHandles # Handles
    /\ LET r == OpenFileResult(openOk, bpf, lt, bc)
       IN  /\ d_pcap' = r.d_pcap
           /\ d_linktype' = r.d_linktype
           /\ openHandles' = r.openHandles
           /\ Done("open_file", r.result, r.ev)
    /\ UNCHANGED << readVars, reassVars, poolVars, d_listener,
                    unknown_layer_as_error, halted >>

open_live_capture(openOk, bpf, lt, bc) ==
    /\ Callable
    /\ openOk => openHandles # Handles
    /\ LET r == OpenWith("pcap_open_live", openOk, bpf, lt, bc)
       IN  /\ d_pcap' = r.d_pcap
           /\ d_linktype' = r.d_linktype
           /\ openHandles' = r.openHandles
           /\ Done("open_live_capture", r.result, r.ev)
    /\ UNCHANGED << readVars, reassVars, poolVars, d_listener,
                    unknown_layer_as_error, halted >>

\* closing from inside the dispatch callback is excluded: pcap_dispatch
\* would go on with a closed handle
close_file ==
    /\ ~halted
    /\ pc = "idle"
    /\ IF d_pcap = NULL
       THEN /\ Done("close_file", "NotOpen", << >>)
            /\ UNCHANGED << d_pcap, openHandles >>
       ELSE /\ d_pcap' = NULL
            /\ openHandles' = Closed(openHandles, d_pcap)
            /\ Done("close_file", "ok", << Call("pcap_close", d_pcap, NULL) >>)
    /\ UNCHANGED << d_linktype, readVars, reassVars, poolVars,
                    d_listener, unknown_layer_as_error, halted >>

\* close_live_capture has no check: with no handle it calls
\* pcap_close(NULL), which is undefined; the build either crashes there or
\* returns
close_live_capture(ub) ==
    /\ ~halted
    /\ pc = "idle"
    /\ IF d_pcap = NULL
       THEN /\ Done("close_live_capture",
                    IF ub = "crash" THEN "crash" ELSE "ok",
                    << Call("pcap_close", NULL, NULL) >>)
            /\ halted' = (ub = "crash")
            /\ UNCHANGED << d_pcap, openHandles >>
       ELSE /\ d_pcap' = NULL
            /\ openHandles' = Closed(openHandles, d_pcap)
            /\ Done("close_live_capture", "ok",
                    << Call("pcap_close", d_pcap, NULL) >>)
            /\ UNCHANGED halted
    /\ UNCHANGED << d_linktype, readVars, reassVars, poolVars,
                    d_listener, unknown_layer_as_error >>

\* ------------------------------------------------------------ read calls
\* ~pcap_close_guard_t on handle field value dp: the calls it makes
GuardCalls(dp) ==
    IF dp # NULL THEN << Call("pcap_close", dp, NULL) >> ELSE << >>

\* read_file: the busy check comes before the guard is built, so a busy
\* engine is left alone.  Otherwise open_file runs under the guard: if it
\* throws, the guard closes whatever d_pcap holds; if it succeeds,
\* read_packets enters pcap_dispatch, which is given n frames.
\* A second pcap_dispatch under a running one is not modelled.
read_file(openOk, bpf, lt, bc, n) ==
    /\ Callable
    /\ IF d_pcap # NULL
       THEN /\ Done("read_file", "AlreadyOpen", << >>)
            /\ UNCHANGED << sessionVars, readVars >>
       ELSE /\ pc = "idle"
            /\ openOk => openHandles # Handles
            /\ LET r == OpenFileResult(openOk, bpf, lt, bc)
               IN  /\ d_linktype' = r.d_linktype
                   /\ readHandle' = r.d_pcap
                   /\ IF r.result = "ok"
                      THEN /\ d_pcap' = r.d_pcap
                           /\ openHandles' = r.openHandles
                           /\ pc' = "reading"
                           /\ guard' = TRUE
                           /\ framesLeft' = n
                           /\ called' = FALSE
                           /\ Done("read_file", "pending", r.ev)
                      ELSE /\ d_pcap' = NULL
                           /\ openHandles' =
                                IF r.d_pcap # NULL
                                THEN Closed(r.openHandles, r.d_pcap)
                                ELSE r.openHandles
                           /\ lastOp' = "read_file"
                           /\ result' = r.result
                           /\ ev' = r.ev \o GuardCalls(r.d_pcap)
                           /\ frame' = NoFrame
                           /\ returned' = "read_file"
                           /\ UNCHANGED << pc, guard, framesLeft, called >>
    /\ UNCHANGED << reassVars, poolVars, d_listener, unknown_layer_as_error,
                    halted >>

\* read_packets called by the user on an open session: assert(d_pcap), then
\* pcap_dispatch, which is given n frames
read_packets(n) ==
    /\ ~halted
    /\ pc = "idle"
    /\ IF d_pcap = NULL
       THEN /\ halted' = TRUE
            /\ Done("read_packets", "crash", << >>)
            /\ UNCHANGED readVars
       ELSE /\ pc' = "reading"
            /\ guard' = FALSE
            /\ readHandle' = d_pcap
            /\ framesLeft' = n
            /\ called' = FALSE
            /\ Done("read_packets", "pending", << >>)
            /\ UNCHANGED halted
    /\ UNCHANGED << sessionVars, reassVars, poolVars, d_listener,
                    unknown_layer_as_error >>

\* leaving the read without the guard's destructor having run
LeaveReadUnguarded(op, res, calls) ==
    /\ pc' = "idle"
    /\ guard' = FALSE
    /\ framesLeft' = 0
    /\ called' = FALSE
    /\ lastOp' = op
    /\ result' = res
    /\ ev' = calls
    /\ returned' = IF guard THEN "read_file" ELSE "read_packets"
    /\ UNCHANGED << sessionVars, readHandle >>

\* control leaves the running read with result res: read_packets returns
\* or throws, and if read_file called it, the guard's destructor runs
LeaveRead(op, res, calls) ==
    /\ pc' = "idle"
    /\ guard' = FALSE
    /\ framesLeft' = 0
    /\ called' = FALSE
    /\ readHandle' = readHandle
    /\ d_pcap' = IF guard THEN NULL ELSE d_pcap
    /\ openHandles' = IF guard /\ d_pcap # NULL
                      THEN Closed(openHandles, d_pcap) ELSE openHandles
    /\ lastOp' = op
    /\ result' = res
    /\ ev' = calls \o (IF guard THEN GuardCalls(d_pcap) ELSE << >>)
    /\ returned' = IF guard THEN "read_file" ELSE "read_packets"
    /\ UNCHANGED d_linktype

\* pcap_dispatch returns: the frame count once the frames are used up, or
\* -1 at any point, which read_packets turns into an exception
pcap_dispatch_returns(r) ==
    /\ ~halted
    /\ pc = "reading"
    /\ r = "ok" => framesLeft = 0
    /\ LeaveRead("pcap_dispatch_returns", r, << >>)
    /\ frame' = NoFrame
    /\ UNCHANGED << reassVars, poolVars, d_listener, unknown_layer_as_error,
                    halted >>

\* ----------------------------------------------------------- packet pool
\* holders[p] is the set of parties that have been given packet p and have
\* not released it: "pool" (it is on the free list), "consumer", "tcp",
\* "udp".  data[p] is "none" until p is constructed.  The pool grows as
\* needed; a behaviour of the model has it construct poolCap objects at most.
FreeList == { p \in Packets : "pool" \in holders[p] }
Unbuilt  == { p \in 1..poolCap : data[p] = "none" }

\* claim(): an object from the free list, or a new one if the list is empty
Claimable ==
    IF FreeList # {} THEN FreeList
    ELSE IF Unbuilt # {} THEN { CHOOSE p \in Unbuilt : \A q \in Unbuilt : p <= q }
    ELSE {}

\* a holder other than the pool gives its packet back: packet_t::release()
downstream_release(p, who) ==
    /\ ~halted
    /\ who \in holders[p] \ {"pool"}
    /\ holders' = [holders EXCEPT ![p] = (@ \ {who}) \cup {"pool"}]
    /\ Done("downstream_release", "ok", << Call("release", p, NULL) >>)
    /\ UNCHANGED << sessionVars, readVars, reassVars, data, poolCap,
                    d_listener, unknown_layer_as_error, halted >>

\* ------------------------------------------------------------ dispatching
NoLayer == "none"

\* packet_t::layer(i) for a negative index: -1 is the top layer
layer(s, i) == IF Len(s) + i >= 0 THEN s[Len(s) + i + 1] ELSE NoLayer

\* the routing decision with the test for a missing second layer left out
RouteTopOnly(s) ==
    LET top    == layer(s, -1)
        second == layer(s, -2)
    IN  IF top = NoLayer THEN "accept"
        ELSE IF d_tcp_reassembler /\
                (top = "layer_tcp" \/
                 (top = "layer_data" /\ second = "layer_tcp"))
        THEN "tcp.process"
        ELSE IF d_udp_reassembler /\
                (top = "layer_udp" \/
                 (top = "layer_data" /\ second = "layer_udp"))
        THEN "udp.process"
        ELSE "accept"

\* the routing decision with the test of d_udp_reassembler left out
RouteUdpUnchecked(s) ==
    LET top    == layer(s, -1)
        second == layer(s, -2)
    IN  IF top = NoLayer \/ second = NoLayer THEN "accept"
        ELSE IF d_tcp_reassembler /\
                (top = "layer_tcp" \/
                 (top = "layer_data" /\ second = "layer_tcp"))
        THEN "tcp.process"
        ELSE IF top = "layer_udp" \/
                (top = "layer_data" /\ second = "layer_udp")
        THEN "udp.process"
        ELSE "accept"

\* the routing decision of handle_packet for a parsed layer stack
Route(s) ==
    LET top    == layer(s, -1)
        second == layer(s, -2)
    IN  IF top = NoLayer \/ second = NoLayer THEN "accept"
        ELSE IF d_tcp_reassembler /\
                (top = "layer_tcp" \/
                 (top = "layer_data" /\ second = "layer_tcp"))
        THEN "tcp.process"
        ELSE IF d_udp_reassembler /\
                (top = "layer_udp" \/
                 (top = "layer_data" /\ second = "layer_udp"))
        THEN "udp.process"
        ELSE "accept"

\* who a routed call hands the packet to, and on which listener it is made
Target(c) == CASE c = "tcp.process" -> "tcp"
               [] c = "udp.process" -> "udp"
               [] OTHER -> "consumer"
On(c) == IF c \in {"accept", "accept_error"} THEN d_listener ELSE NULL

\* set_now on the TCP reassembler alone
SetNowTcpOnly(ts) ==
    IF d_tcp_reassembler THEN << Call("tcp.set_now", ts, NULL) >> ELSE << >>

\* set_now on each active reassembler
SetNow(ts) ==
    (IF d_tcp_reassembler THEN << Call("tcp.set_now", ts, NULL) >> ELSE << >>)
    \o
    (IF d_udp_reassembler THEN << Call("udp.set_now", ts, NULL) >> ELSE << >>)

\* what the catch clauses do with an exception of kind x thrown in the try
\* block: unknown_layer_t releases the packet (or, built with
\* UNKNOWN_LAYER_AS_ERROR, reports it), any other std::exception is
\* reported with accept_error
Catch(x) ==
    IF x = "unknown_layer" /\ ~unknown_layer_as_error
    THEN "release" ELSE "accept_error"

\* the calls of the try block for frame f on packet p, and the exception
\* that leaves it ("ok" if none); o is how the routed call ends
TryBlock(f, p, o) ==
    IF f.parse # "ok"
    THEN [calls |-> << Call("init", p, NULL) >>,
          thrown |-> IF f.parse = "error" THEN "exception" ELSE f.parse]
    ELSE [calls |-> << Call("init", p, NULL) >> \o SetNow(f.ts)
                    \o << Call(Route(f.layers), p, On(Route(f.layers))) >>,
          thrown |-> o]

\* handle_packet, called by pcap_dispatch with frame f.  o is how the
\* routed call ends, oe how accept_error ends if it is called.  An
\* exception of accept_error leaves handle_packet before copy_data and
\* unwinds through pcap_dispatch, which is C code: it reaches the caller of
\* read_packets (esc = "propagate") or terminates the process.
\* (An input that cannot matter is held at its first value.)
handle_packet(f, p, o, oe, esc) ==
    /\ ~halted
    /\ pc = "reading"
    /\ framesLeft > 0
    /\ p \in Claimable
    /\ f.parse # "ok" => o = "ok"
    /\ LET t         == TryBlock(f, p, o)
           handler   == IF t.thrown = "ok" THEN "none" ELSE Catch(t.thrown)
           caught    == CASE handler = "release" ->
                               << Call("release", p, NULL) >>
                          [] handler = "accept_error" ->
                               << Call("accept_error", p, d_listener) >>
                          [] OTHER -> << >>
           escapes   == handler = "accept_error" /\ oe # "ok"
           must_copy == ~f.resolved
           copy      == IF must_copy /\ ~escapes
                        THEN << Call("copy_data", p, NULL) >> ELSE << >>
           calls     == << Call("claim", p, NULL) >> \o t.calls \o caught
                        \o copy
           given     == (IF f.parse = "ok"
                         THEN {Target(Route(f.layers))} ELSE {})
                        \cup (IF handler = "accept_error"
                              THEN {"consumer"} ELSE {})
                        \cup (IF handler = "release" THEN {"pool"} ELSE {})
       IN  /\ handler # "accept_error" => oe = "ok"
           /\ ~escapes => esc = "propagate"
           /\ holders' = [holders EXCEPT ![p] = (@ \ {"pool"}) \cup given]
           /\ data' = [data EXCEPT ![p] =
                         IF f.resolved \/ (must_copy /\ ~escapes)
                         THEN "owned" ELSE "borrowed"]
           /\ frame' = f
           /\ IF ~escapes
              THEN /\ framesLeft' = framesLeft - 1
                   /\ called' = TRUE
                   /\ lastOp' = "handle_packet"
                   /\ result' = "ok"
                   /\ ev' = calls
                   /\ returned' = "none"
                   /\ UNCHANGED << sessionVars, pc, guard, readHandle, halted >>
              ELSE IF esc = "propagate"
              THEN /\ LeaveRead("handle_packet", "ListenerError", calls)
                   /\ UNCHANGED halted
              ELSE /\ halted' = TRUE
                   /\ lastOp' = "handle_packet"
                   /\ result' = "crash"
                   /\ ev' = calls
                   /\ returned' = "none"
                   /\ UNCHANGED << sessionVars, readVars >>
    /\ UNCHANGED << reassVars, poolCap, d_listener, unknown_layer_as_error >>

\* --------------------------------------------------- reassembler lifecycle
\* These run between reads: the consumer reference and the reassemblers are
\* not changed while a dispatch is in flight.
Held(who) == { p \in Packets : who \in holders[p] }

RECURSIVE InOrder(_)
InOrder(S) ==
    IF S = {} THEN << >>
    ELSE LET m == CHOOSE x \in S : \A y \in S : x <= y
         IN  << m >> \o InOrder(S \ {m})

\* a reassembler emits everything it buffers to the listener it is bound to
Emitted(who, l) ==
    LET s == InOrder(Held(who))
    IN  [i \in 1..Len(s) |-> Call("accept", s[i], l)]

\* the holders once `who` has passed all it buffers on to `next`
PassedOn(h, who, next) ==
    [p \in Packets |->
        IF who \in h[p] THEN (h[p] \ {who}) \cup {next} ELSE h[p]]

\* set_listener that rebinds the engine and leaves the reassemblers alone
SetListenerEngineOnly(l) ==
    /\ ~halted
    /\ pc = "idle"
    /\ d_listener' = l
    /\ Done("set_listener", "ok", << >>)
    /\ UNCHANGED << sessionVars, readVars, reassVars, poolVars,
                    unknown_layer_as_error, halted >>

\* set_listener(l): every active reassembler is rebound, then the engine
set_listener(l) ==
    /\ ~halted
    /\ pc = "idle"
    /\ tcp_listener' = IF d_tcp_reassembler THEN l ELSE tcp_listener
    /\ udp_listener' = IF d_udp_reassembler THEN l ELSE udp_listener
    /\ d_listener' = l
    /\ Done("set_listener", "ok", << >>)
    /\ UNCHANGED << sessionVars, readVars, d_tcp_reassembler,
                    d_udp_reassembler, poolVars, unknown_layer_as_error,
                    halted >>

\* flush(): each active reassembler is flushed, tcp first, and emits what
\* it buffers to the listener it is bound to
FlushCalls ==
    (IF d_tcp_reassembler
     THEN << Call("tcp.flush", NULL, NULL) >> \o Emitted("tcp", tcp_listener)
     ELSE << >>)
    \o
    (IF d_udp_reassembler
     THEN << Call("udp.flush", NULL, NULL) >> \o Emitted("udp", udp_listener)
     ELSE << >>)

\* the holders once flush() has returned
Flushed ==
    LET h1 == IF d_tcp_reassembler
              THEN PassedOn(holders, "tcp", "consumer") ELSE holders
    IN  IF d_udp_reassembler THEN PassedOn(h1, "udp", "consumer") ELSE h1

\* flush that stops after the TCP reassembler
FlushTcpOnly ==
    /\ ~halted
    /\ pc = "idle"
    /\ holders' = IF d_tcp_reassembler
                  THEN PassedOn(holders, "tcp", "consumer") ELSE holders
    /\ Done("flush", "ok",
            IF d_tcp_reassembler
            THEN << Call("tcp.flush", NULL, NULL) >>
                 \o Emitted("tcp", tcp_listener)
            ELSE << >>)
    /\ UNCHANGED << sessionVars, readVars, reassVars, data, poolCap,
                    d_listener, unknown_layer_as_error, halted >>

flush ==
    /\ ~halted
    /\ pc = "idle"
    /\ holders' = Flushed
    /\ Done("flush", "ok", FlushCalls)
    /\ UNCHANGED << sessionVars, readVars, reassVars, data, poolCap,
                    d_listener, unknown_layer_as_error, halted >>

\* enable_tcp_reassembly that drops the pointer without deleting the object
EnableTcpNoDelete(en, how) ==
    /\ ~halted
    /\ pc = "idle"
    /\ d_tcp_reassembler' = en
    /\ tcp_listener' = IF en THEN d_listener ELSE NULL
    /\ Done("enable_tcp_reassembly", "ok", << >>)
    /\ UNCHANGED << sessionVars, readVars, d_udp_reassembler, udp_listener,
                    poolVars, d_listener, unknown_layer_as_error, halted >>

\* deleting a reassembler: what it buffers is flushed to its listener
\* (how = "consumer") or released to the pool (how = "pool")
enable_tcp_reassembly(en, how) ==
    /\ ~halted
    /\ pc = "idle"
    /\ IF en /\ ~d_tcp_reassembler
       THEN /\ d_tcp_reassembler' = TRUE
            /\ tcp_listener' = d_listener
            /\ Done("enable_tcp_reassembly", "ok", << >>)
            /\ UNCHANGED holders
       ELSE IF ~en /\ d_tcp_reassembler
       THEN /\ d_tcp_reassembler' = FALSE
            /\ tcp_listener' = NULL
            /\ holders' = PassedOn(holders, "tcp", how)
            /\ Done("enable_tcp_reassembly", "ok",
                    IF how = "consumer"
                    THEN Emitted("tcp", tcp_listener) ELSE << >>)
       ELSE /\ Done("enable_tcp_reassembly", "ok", << >>)
            /\ UNCHANGED << d_tcp_reassembler, tcp_listener, holders >>
    /\ UNCHANGED << sessionVars, readVars, d_udp_reassembler, udp_listener,
                    data, poolCap, d_listener, unknown_layer_as_error,
                    halted >>

enable_udp_reassembly(en, how) ==
    /\ ~halted
    /\ pc = "idle"
    /\ IF en /\ ~d_udp_reassembler
       THEN /\ d_udp_reassembler' = TRUE
            /\ udp_listener' = d_listener
            /\ Done("enable_udp_reassembly", "ok", << >>)
            /\ UNCHANGED holders
       ELSE IF ~en /\ d_udp_reassembler
       THEN /\ d_udp_reassembler' = FALSE
            /\ udp_listener' = NULL
            /\ holders' = PassedOn(holders, "udp", how)
            /\ Done("enable_udp_reassembly", "ok",
                    IF how = "consumer"
                    THEN Emitted("udp", udp_listener) ELSE << >>)
       ELSE /\ Done("enable_udp_reassembly", "ok", << >>)
            /\ UNCHANGED << d_udp_reassembler, udp_listener, holders >>
    /\ UNCHANGED << sessionVars, readVars, d_tcp_reassembler, tcp_listener,
                    data, poolCap, d_listener, unknown_layer_as_error,
                    halted >>

\* a destructor that closes the handle before it flushes
DestructorCloseFirst ==
    /\ ~halted
    /\ pc = "idle"
    /\ LET closing  == IF d_pcap # NULL
                       THEN << Call("pcap_close", d_pcap, NULL) >> ELSE << >>
           deleting == (IF d_tcp_reassembler
                        THEN << Call("tcp.delete", NULL, NULL) >> ELSE << >>)
                       \o
                       (IF d_udp_reassembler
                        THEN << Call("udp.delete", NULL, NULL) >> ELSE << >>)
       IN  Done("destructor", "ok", closing \o FlushCalls \o deleting)
    /\ holders' = Flushed
    /\ d_pcap' = NULL
    /\ openHandles' = IF d_pcap # NULL
                      THEN Closed(openHandles, d_pcap) ELSE openHandles
    /\ d_tcp_reassembler' = FALSE
    /\ d_udp_reassembler' = FALSE
    /\ tcp_listener' = NULL
    /\ udp_listener' = NULL
    /\ pc' = "destroyed"
    /\ UNCHANGED << d_linktype, guard, readHandle, framesLeft, called, data,
                    poolCap, d_listener, unknown_layer_as_error, halted >>

\* ~pcap_reader_t: flush(), then close_live_capture() if a handle is open,
\* then both reassemblers are deleted (a delete of a NULL pointer does
\* nothing).  The engine is gone afterwards.
destructor ==
    /\ ~halted
    /\ pc = "idle"
    /\ LET closing  == IF d_pcap # NULL
                       THEN << Call("pcap_close", d_pcap, NULL) >> ELSE << >>
           deleting == (IF d_tcp_reassembler
                        THEN << Call("tcp.delete", NULL, NULL) >> ELSE << >>)
                       \o
                       (IF d_udp_reassembler
                        THEN << Call("udp.delete", NULL, NULL) >> ELSE << >>)
       IN  Done("destructor", "ok", FlushCalls \o closing \o deleting)
    /\ holders' = Flushed
    /\ d_pcap' = NULL
    /\ openHandles' = IF d_pcap # NULL
                      THEN Closed(openHandles, d_pcap) ELSE openHandles
    /\ d_tcp_reassembler' = FALSE
    /\ d_udp_reassembler' = FALSE
    /\ tcp_listener' = NULL
    /\ udp_listener' = NULL
    /\ pc' = "destroyed"
    /\ UNCHANGED << d_linktype, guard, readHandle, framesLeft, called, data,
                    poolCap, d_listener, unknown_layer_as_error, halted >>

\* ------------------------------------------------------ specifications
\* Spec: the capture session.  Every session operation with every input,
\* called between reads and, for the open calls, from inside a callback of
\* a running read; the frames of the capture are plain ones (a frame that
\* parses to no layer and a malformed one), the build is the default one,
\* the reassemblers stay as the constructor made them and the pool
\* constructs one object.
SessionFrames ==
    { f \in Frames : f.layers = << >> /\ f.resolved /\
                     f.parse \in {"ok", "error"} }

SessionInit == Init /\ ~unknown_layer_as_error /\ poolCap = 1

Next ==
    \/ \E openOk \in BOOLEAN, bpf \in Filters, lt \in LinkTypes,
          bc \in {"ok", "exception"}, n \in 0..MaxFrames :
          read_file(openOk, bpf, lt, bc, n)
    \/ \E openOk \in BOOLEAN, bpf \in Filters, lt \in LinkTypes,
          bc \in {"ok", "exception"} : open_file(openOk, bpf, lt, bc)
    \/ \E openOk \in BOOLEAN, bpf \in Filters, lt \in LinkTypes,
          bc \in {"ok", "exception"} : open_live_capture(openOk, bpf, lt, bc)
    \/ close_file
    \/ \E ub \in {"crash", "return"} : close_live_capture(ub)
    \/ \E n \in 0..MaxFrames : read_packets(n)
    \/ \E r \in {"ok", "ReadError"} : pcap_dispatch_returns(r)
    \/ \E f \in SessionFrames, p \in Packets, o \in {"ok", "exception"},
          oe \in {"ok", "exception"}, esc \in {"propagate", "terminate"} :
          handle_packet(f, p, o, oe, esc)
    \/ \E p \in Packets : downstream_release(p, "consumer")

Spec == SessionInit /\ [][Next]_vars

\* SpecDispatch: the dispatch engine.  Reads of captures that open without
\* error, with every frame and every outcome of the calls handle_packet
\* makes, in both builds, with the reassemblers switched on and off
\* between reads and packets released downstream at any time; the pool
\* constructs one object, which every dispatch claims again.
DispatchInit == Init /\ d_linktype = 1 /\ poolCap = 1

NextDispatch ==
    \/ \E n \in 0..MaxFrames : read_file(TRUE, "empty", 1, "ok", n)
    \/ \E r \in {"ok", "ReadError"} : pcap_dispatch_returns(r)
    \/ \E f \in Frames, p \in Packets, o \in Outcomes,
          oe \in {"ok", "exception"}, esc \in {"propagate", "terminate"} :
          handle_packet(f, p, o, oe, esc)
    \/ \E p \in Packets, who \in {"consumer", "tcp", "udp"} :
          downstream_release(p, who)
    \/ \E en \in BOOLEAN, how \in {"consumer", "pool"} :
          enable_tcp_reassembly(en, how)
    \/ \E en \in BOOLEAN, how \in {"consumer", "pool"} :
          enable_udp_reassembly(en, how)

SpecDispatch == DispatchInit /\ [][NextDispatch]_vars

\* SpecLifecycle: the reassemblers and the consumer reference.  A capture
\* is opened, read with read_packets and closed; between reads the
\* consumer is rebound, the reassemblers are switched on and off and
\* flushed, and the engine is destroyed.  The frames are a short one, a
\* TCP one, a UDP one and a malformed one, the calls downstream return
\* (what follows when one throws is in SpecDispatch), and the pool may
\* construct MaxPackets objects.
LifecycleFrames ==
    { f \in Frames :
        /\ f.resolved
        /\ f.parse # "unknown_layer"
        /\ f.layers \in { << >>, << "layer_other", "layer_tcp" >>,
                          << "layer_other", "layer_udp" >> } }

LifecycleInit ==
    Init /\ d_linktype = 1 /\ ~unknown_layer_as_error /\ poolCap = MaxPackets

NextLifecycle ==
    \/ open_file(TRUE, "empty", 1, "ok")
    \/ close_file
    \/ \E n \in 0..MaxFrames : read_packets(n)
    \/ pcap_dispatch_returns("ok")
    \/ \E f \in LifecycleFrames, p \in Packets :
          handle_packet(f, p, "ok", "ok", "propagate")
    \/ \E p \in Packets, who \in {"consumer", "tcp", "udp"} :
          downstream_release(p, who)
    \/ \E l \in Listeners : set_listener(l)
    \/ flush
    \/ \E en \in BOOLEAN, how \in {"consumer", "pool"} :
          enable_tcp_reassembly(en, how)
    \/ \E en \in BOOLEAN, how \in {"consumer", "pool"} :
          enable_udp_reassembly(en, how)
    \/ destructor

SpecLifecycle == LifecycleInit /\ [][NextLifecycle]_vars

\* ================================================================ claims
\* the calls named c in the last step's record
CallsOf(c) == { i \in 1..Len(ev) : ev[i].call = c }
CallsOn(c, a) == { i \in 1..Len(ev) : ev[i].call = c /\ ev[i].arg = a }

\* C1: whenever the engine holds an open capture handle, a call to
\* read_file or open_file fails with AlreadyOpen and changes nothing of the
\* session: the same handle stays open, the link type is as before, the
\* call makes no begin_capture (or any other call) and a running read is
\* where it was, so no frame is dispatched by it.
C1_BusyOpenFails ==
    [][ (lastOp' \in {"read_file", "open_file"} /\ d_pcap # NULL)
        => /\ result' = "AlreadyOpen"
           /\ d_pcap' = d_pcap
           /\ openHandles' = openHandles
           /\ d_linktype' = d_linktype
           /\ ev' = << >>
           /\ UNCHANGED << readVars, poolVars >> ]_vars

C1_Witness ==
    /\ lastOp = "open_file"
    /\ result = "AlreadyOpen"
    /\ d_pcap # NULL
    /\ d_pcap \in openHandles

\* C2: open_live_capture called while the engine holds an open handle
\* fails with AlreadyOpen and the handle is neither replaced nor lost, and
\* at most one capture handle is ever open.
C2_OpenLiveExclusive ==
    [][ /\ (lastOp' = "open_live_capture" /\ d_pcap # NULL)
           => /\ result' = "AlreadyOpen"
              /\ d_pcap' = d_pcap
              /\ openHandles' = openHandles
        /\ Cardinality(openHandles') <= 1 ]_vars

\* C3: a close operation (close_file, close_live_capture) called with no
\* handle open fails with NotOpen and makes no pcap_close call; called with
\* a handle open it closes that handle and the session is idle.
C3_CloseChecksOpen ==
    [][ lastOp' \in {"close_file", "close_live_capture"}
        => IF d_pcap = NULL
           THEN result' = "NotOpen" /\ ev' = << >>
           ELSE /\ result' = "ok"
                /\ d_pcap' = NULL
                /\ openHandles' = openHandles \ {d_pcap}
                /\ ev' = << Call("pcap_close", d_pcap, NULL) >> ]_vars

\* C4: when a read_file call that found no handle open returns, however it
\* ends, the engine holds no handle, and the handle the call opened (if it
\* opened one) is closed, by exactly one pcap_close made as the call
\* returns.
C4_ReadFileClosesItsHandle ==
    returned = "read_file"
    => /\ d_pcap = NULL
       /\ readHandle # NULL
          => /\ readHandle \notin openHandles
             /\ Cardinality(CallsOn("pcap_close", readHandle)) = 1

\* C5 as stated: a read_file call that follows directly a read_file call
\* that opened and read its capture (the first has just returned normally,
\* or is still running) fails with AlreadyOpen and leaves the first
\* session as it was.
C5_SecondReadFails ==
    [][ (lastOp' = "read_file" /\
         ((returned = "read_file" /\ result = "ok") \/
          (pc = "reading" /\ guard)))
        => /\ result' = "AlreadyOpen"
           /\ UNCHANGED << sessionVars, readVars >> ]_vars

\* C5 amended: a read_file call made while an earlier read_file is still
\* running and holds its handle fails with AlreadyOpen and leaves the
\* running read as it was; a read_file call made right after an earlier
\* read_file has returned does not fail with AlreadyOpen, because the
\* first call closed its handle before it returned.
C5_SecondReadAmended ==
    [][ lastOp' = "read_file"
        => /\ (pc = "reading" /\ guard /\ d_pcap # NULL)
              => /\ result' = "AlreadyOpen"
                 /\ UNCHANGED << sessionVars, readVars >>
           /\ returned = "read_file" => result' # "AlreadyOpen" ]_vars

C5_Witness ==
    /\ lastOp = "read_file"
    /\ result = "AlreadyOpen"
    /\ pc = "reading"
    /\ guard
    /\ d_pcap = readHandle

\* ---- the dispatch engine: claims about the last handle_packet call
Handled == lastOp = "handle_packet"

\* the packet the call claimed
Claimed == ev[1].arg

\* the ways a packet leaves the engine
ExitCalls == {"release", "accept", "tcp.process", "udp.process",
              "accept_error"}
Exits == { i \in 1..Len(ev) : ev[i].call \in ExitCalls /\ ev[i].arg = Claimed }

\* the top layer is TCP, or is data directly over TCP
TcpShaped(s) ==
    /\ Len(s) >= 2
    /\ \/ s[Len(s)] = "layer_tcp"
       \/ (s[Len(s)] = "layer_data" /\ s[Len(s) - 1] = "layer_tcp")

\* C6: whatever the frame and however parsing and the downstream calls end,
\* the packet handle_packet claimed leaves the engine through exactly one
\* exit: one release, or one accept, or one process, or one accept_error.
C6_ExactlyOneExit ==
    Handled => Cardinality(Exits) = 1

\* C7: a parsed frame of two or more layers with TCP (or data over TCP) on
\* top, with TCP reassembly enabled, goes to the TCP reassembler's process
\* exactly once, and the engine calls neither accept nor accept_error nor
\* the UDP reassembler's process for it.
C7_TcpFrameOnlyToTcp ==
    (Handled /\ frame.parse = "ok" /\ TcpShaped(frame.layers) /\
     d_tcp_reassembler)
    => /\ Cardinality(CallsOn("tcp.process", Claimed)) = 1
       /\ CallsOf("accept") = {}
       /\ CallsOf("accept_error") = {}
       /\ CallsOf("udp.process") = {}

\* C8: a parsed frame of fewer than two layers is passed to the consumer's
\* accept exactly once and to no reassembler's process, whichever of the
\* reassemblers are enabled.
C8_ShortFrameAccepted ==
    (Handled /\ frame.parse = "ok" /\ Len(frame.layers) < 2)
    => /\ Cardinality(CallsOn("accept", Claimed)) = 1
       /\ \A i \in CallsOf("accept") : ev[i].to = d_listener
       /\ CallsOf("tcp.process") = {}
       /\ CallsOf("udp.process") = {}

C8_Witness ==
    /\ Handled
    /\ frame.parse = "ok"
    /\ frame.layers = << "layer_tcp" >>
    /\ d_tcp_reassembler
    /\ ~d_udp_reassembler
    /\ Cardinality(CallsOn("accept", Claimed)) = 1

\* C9: a structural parse error of a frame ends in exactly one accept_error
\* for its packet and does not leave handle_packet: control is back in the
\* capture loop, which goes on with the frames that follow.
C9_ParseErrorStaysInside ==
    (Handled /\ frame.parse = "error")
    => /\ Cardinality(CallsOn("accept_error", Claimed)) = 1
       /\ result = "ok"
       /\ pc = "reading"
       /\ ~halted

\* C10: when handle_packet is left, on any exit path, no packet that
\* someone other than the pool holds is still borrowed: if parsing did not
\* take a copy, copy_data has been called on the packet.
C10_NothingLeftBorrowed ==
    Handled
    => /\ \A p \in Packets :
            holders[p] \ {"pool"} # {} => data[p] # "borrowed"
       /\ ~frame.resolved
            => Cardinality(CallsOn("copy_data", Claimed)) = 1

\* C11: with downstream holders releasing at any later time, the object a
\* claim() returns is held by nobody else: it is not held by the consumer
\* or by a reassembler when it is claimed, so no two live claims are of the
\* same object, and once claimed it is off the free list until it is
\* released again.
C11_ClaimNeverAliases ==
    [][ lastOp' = "handle_packet"
        => /\ holders[ev'[1].arg] \ {"pool"} = {}
           /\ \/ "pool" \notin holders'[ev'[1].arg]
              \/ \E i \in 1..Len(ev') :
                    ev'[i] = Call("release", ev'[1].arg, NULL) ]_vars

\* ---- the reassemblers and the consumer reference
\* the calls that reach a consumer
ConsumerCalls == {"accept", "accept_error", "begin_capture"}

\* C12: after any sequence of enable_tcp_reassembly, enable_udp_reassembly
\* and set_listener calls every active reassembler is bound to the engine's
\* current consumer, and every accept, accept_error and begin_capture the
\* engine makes and every packet a reassembler delivers (when flushed or
\* deleted) goes to the current consumer, the one the last set_listener
\* named, never to an earlier one.
C12_ConsumerIsCurrent ==
    /\ d_tcp_reassembler => tcp_listener = d_listener
    /\ d_udp_reassembler => udp_listener = d_listener
    /\ \A i \in 1..Len(ev) :
          ev[i].call \in ConsumerCalls => ev[i].to = d_listener

\* a packet buffered while the first consumer was bound is delivered by a
\* flush to the second, bound since
C12_Witness ==
    /\ lastOp = "flush"
    /\ d_listener = 2
    /\ \E i \in 1..Len(ev) : ev[i].call = "accept" /\ ev[i].to = 2
    /\ d_tcp_reassembler
    /\ tcp_listener = 2

\* packet p was delivered to listener l in the last step
Delivered(p, l) == \E i \in 1..Len(ev) : ev[i] = Call("accept", p, l)

\* the last step switched reassembler `who` off (on), `was` and `is` being
\* its pointer before and after
SwitchedOff(op, was, is) == lastOp' = op /\ was /\ ~is
SwitchedOn(op, was, is)  == lastOp' = op /\ ~was /\ is

\* C13: when a reassembler is disabled, each packet it buffered is
\* delivered to the current consumer or released to the pool in that call
\* and the reassembler holds nothing; a disabled reassembler holds
\* nothing, and the reassembler a later enable makes holds nothing and
\* emits nothing, so no packet from before the disable survives in it.
C13_ReenabledIsFresh ==
    [][ /\ SwitchedOff("enable_tcp_reassembly", d_tcp_reassembler,
                       d_tcp_reassembler')
           => \A p \in Held("tcp") :
                 \/ "consumer" \in holders'[p] /\ Delivered(p, d_listener)'
                 \/ "pool" \in holders'[p]
        /\ SwitchedOff("enable_udp_reassembly", d_udp_reassembler,
                       d_udp_reassembler')
           => \A p \in Held("udp") :
                 \/ "consumer" \in holders'[p] /\ Delivered(p, d_listener)'
                 \/ "pool" \in holders'[p]
        /\ ~d_tcp_reassembler' => Held("tcp")' = {}
        /\ ~d_udp_reassembler' => Held("udp")' = {}
        /\ SwitchedOn("enable_tcp_reassembly", d_tcp_reassembler,
                      d_tcp_reassembler')
           => Held("tcp")' = {} /\ ev' = << >>
        /\ SwitchedOn("enable_udp_reassembly", d_udp_reassembler,
                      d_udp_reassembler')
           => Held("udp")' = {} /\ ev' = << >> ]_vars

\* the TCP reassembler has just been disabled while it buffered a packet,
\* which it delivered to the consumer
C13_Witness ==
    /\ lastOp = "enable_tcp_reassembly"
    /\ ~d_tcp_reassembler
    /\ tcp_listener = NULL
    /\ \E p \in Packets : Delivered(p, d_listener) /\ "consumer" \in holders[p]
    /\ Held("tcp") = {}

\* C14: a flush() returns without error; every packet an enabled
\* reassembler buffered when it was called has been delivered to the
\* current consumer when it returns and both reassemblers hold nothing
\* then; a disabled reassembler is not flushed.
C14_FlushDeliversAll ==
    [][ lastOp' = "flush"
        => /\ result' = "ok"
           /\ d_tcp_reassembler
              => \A p \in Held("tcp") :
                    Delivered(p, d_listener)' /\ "consumer" \in holders'[p]
           /\ d_udp_reassembler
              => \A p \in Held("udp") :
                    Delivered(p, d_listener)' /\ "consumer" \in holders'[p]
           /\ Held("tcp")' = {}
           /\ Held("udp")' = {}
           /\ ~d_tcp_reassembler => CallsOf("tcp.flush")' = {}
           /\ ~d_udp_reassembler => CallsOf("udp.flush")' = {} ]_vars

\* a flush with both reassemblers enabled, each of which buffered a packet
C14_Witness ==
    /\ lastOp = "flush"
    /\ d_tcp_reassembler
    /\ d_udp_reassembler
    /\ Len(ev) = 4
    /\ ev[1].call = "tcp.flush"
    /\ ev[2].call = "accept"
    /\ ev[3].call = "udp.flush"
    /\ ev[4].call = "accept"
    /\ ev[2].arg # ev[4].arg
    /\ Held("consumer") = {ev[2].arg, ev[4].arg}

\* ---- opening a capture
Opens == {"read_file", "open_file", "open_live_capture"}
OpenFailures == {"OpenError", "FilterError"}

\* the last step's record ends in begin_capture, made once, for link type
\* lt on listener l, after pcap_datalink and after the filter calls
AnnouncedLast(e, lt, l) ==
    /\ Len(e) >= 2
    /\ e[Len(e)] = Call("begin_capture", lt, l)
    /\ e[Len(e) - 1].call = "pcap_datalink"
    /\ \A i \in 1..(Len(e) - 1) : e[i].call # "begin_capture"

\* C15: an open (read_file, open_file, open_live_capture) that succeeds
\* calls the consumer's begin_capture exactly once, after the filter has
\* been attached and the link type read, and before any frame of the
\* session is dispatched; an open that fails with OpenError or FilterError
\* calls no begin_capture, and no capture is started for it: no frame is
\* dispatched by it, and a read that follows it dispatches none.
C15_BeginCaptureOncePerOpen ==
    [][ /\ (lastOp' \in Opens /\ result' \in {"ok", "pending"})
           => /\ AnnouncedLast(ev', d_linktype', d_listener)
              /\ CallsOf("handle_packet")' = {}
        /\ (lastOp' \in Opens /\ result' \in OpenFailures)
           => /\ CallsOf("begin_capture")' = {}
              /\ lastOp' = "read_file" => pc' = "idle"
        /\ (lastOp \in Opens /\ result \in OpenFailures /\ pc = "idle")
           => ~(lastOp' = "read_packets" /\ pc' = "reading") ]_vars

\* C16: when open_file or open_live_capture fails with OpenError or
\* FilterError the engine holds no handle and the handle the call opened,
\* if it opened one, is closed again; so an open that follows does not fail
\* with AlreadyOpen and a close that follows fails with NotOpen.
C16_FailedOpenLeavesIdle ==
    [][ /\ (lastOp' \in {"open_file", "open_live_capture"} /\
            result' \in OpenFailures)
           => /\ d_pcap' = NULL
              /\ openHandles' \subseteq openHandles
        /\ (lastOp \in {"open_file", "open_live_capture"} /\
            result \in OpenFailures)
           => /\ lastOp' \in Opens => result' # "AlreadyOpen"
              /\ lastOp' \in {"close_file", "close_live_capture"}
                 => result' = "NotOpen" ]_vars

\* ---- the dispatch engine, continued
\* C17: in the default build, when parsing fails with the unrecognized-
\* layer condition, handle_packet releases the packet once and that is the
\* last thing it does with it: no set_now, accept, accept_error or process
\* is called, and nothing (no copy_data) is called on the packet after the
\* release, so the pool alone holds it.
C17_UnknownLayerReleasedLast ==
    (Handled /\ frame.parse = "unknown_layer" /\ ~unknown_layer_as_error)
    => /\ Cardinality(CallsOn("release", Claimed)) = 1
       /\ ev[Len(ev)] = Call("release", Claimed, NULL)
       /\ \A c \in {"tcp.set_now", "udp.set_now", "accept", "accept_error",
                     "tcp.process", "udp.process"} : CallsOf(c) = {}
       /\ holders[Claimed] = {"pool"}

\* the calls that route a packet
RoutedCalls == { i \in 1..Len(ev) :
                   ev[i].call \in {"accept", "tcp.process", "udp.process"} }

\* reassembler `who` got set_now once, with the frame's timestamp, before
\* the packet was routed
AdvancedOnce(who) ==
    /\ Cardinality(CallsOf(who)) = 1
    /\ \A i \in CallsOf(who) :
          /\ ev[i].arg = frame.ts
          /\ \A j \in RoutedCalls : i < j

\* C18: for a frame that parses, each active reassembler gets set_now
\* exactly once, with the packet's timestamp, before the packet is routed
\* to accept or process; a disabled reassembler gets no set_now, and for a
\* frame whose parsing fails no reassembler gets one.
C18_SetNowBeforeRouting ==
    Handled
    => IF frame.parse = "ok"
       THEN /\ RoutedCalls # {}
            /\ IF d_tcp_reassembler THEN AdvancedOnce("tcp.set_now")
               ELSE CallsOf("tcp.set_now") = {}
            /\ IF d_udp_reassembler THEN AdvancedOnce("udp.set_now")
               ELSE CallsOf("udp.set_now") = {}
       ELSE CallsOf("tcp.set_now") = {} /\ CallsOf("udp.set_now") = {}

\* a frame with the second timestamp, dispatched with only the UDP
\* reassembler active
C18_Witness ==
    /\ Handled
    /\ frame.parse = "ok"
    /\ frame.ts = 2
    /\ ~d_tcp_reassembler
    /\ d_udp_reassembler
    /\ CallsOn("udp.set_now", 2) # {}
    /\ CallsOf("tcp.set_now") = {}
    /\ CallsOf("udp.process") # {}

\* the top layer is UDP, or is data directly over UDP
UdpShaped(s) ==
    /\ Len(s) >= 2
    /\ \/ s[Len(s)] = "layer_udp"
       \/ (s[Len(s)] = "layer_data" /\ s[Len(s) - 1] = "layer_udp")

\* the packet went to the consumer's accept once and to no reassembler
AcceptedOnly ==
    /\ Cardinality(CallsOn("accept", Claimed)) = 1
    /\ \A i \in CallsOf("accept") : ev[i].to = d_listener
    /\ CallsOf("tcp.process") = {}
    /\ CallsOf("udp.process") = {}

\* C19: a parsed frame of two or more layers that is not one for the TCP
\* reassembler goes to the UDP reassembler's process exactly once if UDP
\* reassembly is enabled and its top layer is UDP or data directly over
\* UDP, and otherwise to the consumer's accept exactly once; so a TCP
\* frame with TCP reassembly disabled and a UDP frame with UDP reassembly
\* disabled go to accept and to no reassembler.
C19_UdpOrAccept ==
    (Handled /\ frame.parse = "ok" /\ Len(frame.layers) >= 2 /\
     ~(d_tcp_reassembler /\ TcpShaped(frame.layers)))
    => /\ IF d_udp_reassembler /\ UdpShaped(frame.layers)
          THEN /\ Cardinality(CallsOn("udp.process", Claimed)) = 1
               /\ CallsOf("accept") = {}
               /\ CallsOf("tcp.process") = {}
          ELSE AcceptedOnly
       /\ (TcpShaped(frame.layers) /\ ~d_tcp_reassembler) => AcceptedOnly
       /\ (UdpShaped(frame.layers) /\ ~d_udp_reassembler) => AcceptedOnly

\* a data-over-UDP frame, dispatched with UDP reassembly disabled and TCP
\* reassembly enabled, went to accept
C19_Witness ==
    /\ Handled
    /\ frame.parse = "ok"
    /\ frame.layers = << "layer_udp", "layer_data" >>
    /\ d_tcp_reassembler
    /\ ~d_udp_reassembler
    /\ AcceptedOnly

\* ---- teardown
FlushKinds  == {"tcp.flush", "udp.flush", "accept"}
DeleteKinds == {"tcp.delete", "udp.delete"}

\* in the last step's record every call of kind As is before every call
\* of kind Bs
Order(As, Bs) ==
    \A i, j \in 1..Len(ev) :
       (ev[i].call \in As /\ ev[j].call \in Bs) => i < j

\* how many calls named c the last step made; one if b and none if not
Count(c) == Cardinality(CallsOf(c))
OneIf(b) == IF b THEN 1 ELSE 0

\* C20: the destructor flushes every reassembler that is still active,
\* then closes the capture handle if one is open and attempts no close if
\* none is, and then deletes the reassemblers: every flush (and delivery)
\* is before the close and the deletes, the close is before the deletes,
\* and after it no operation of the engine runs, so no reassembler is
\* flushed or used once it is destroyed.
C20_TeardownOrder ==
    [][ /\ lastOp' = "destructor"
           => /\ Count("tcp.flush")' = OneIf(d_tcp_reassembler)
              /\ Count("udp.flush")' = OneIf(d_udp_reassembler)
              /\ Count("tcp.delete")' = OneIf(d_tcp_reassembler)
              /\ Count("udp.delete")' = OneIf(d_udp_reassembler)
              /\ IF d_pcap # NULL
                 THEN /\ Count("pcap_close")' = 1
                      /\ \E i \in 1..Len(ev') :
                            ev'[i] = Call("pcap_close", d_pcap, NULL)
                      /\ openHandles' = openHandles \ {d_pcap}
                 ELSE /\ CallsOf("pcap_close")' = {}
                      /\ openHandles' = openHandles
              /\ d_pcap' = NULL
              /\ Order(FlushKinds, {"pcap_close"} \cup DeleteKinds)'
              /\ Order({"pcap_close"}, DeleteKinds)'
              /\ Held("tcp")' = {}
              /\ Held("udp")' = {}
              /\ ~d_tcp_reassembler'
              /\ ~d_udp_reassembler'
              /\ pc' = "destroyed"
        /\ pc = "destroyed" => lastOp' = "downstream_release" ]_vars

\* an engine destroyed with a handle open and a packet buffered: the
\* packet was delivered, then the handle closed, then the reassemblers
\* deleted
C20_Witness ==
    /\ lastOp = "destructor"
    /\ pc = "destroyed"
    /\ \E i, j, k \in 1..Len(ev) :
          /\ i < j
          /\ j < k
          /\ ev[i].call = "accept"
          /\ ev[j].call = "pcap_close"
          /\ ev[k].call = "tcp.delete"
    /\ openHandles = {}

====
